---------------------------- MODULE Spec2Model ----------------------------
(***************************************************************************)
(* A model of the map-reduce summarization pipeline of pdf-summarizer.py   *)
(* (class PDFSummarizer): the Segmenter (detect_section_boundaries), the   *)
(* Chunker (create_semantic_chunks), the thread-pool fan-out / fan-in of   *)
(* summarize_pdf and the reduce call (summarize_summaries).                *)
(*                                                                         *)
(* A text is a sequence of characters over {NL, CH}: NL is the newline,    *)
(* CH stands for any other character.  The chunker only looks at lengths   *)
(* and at the paragraph separator NL NL, so the two classes are enough.    *)
(* Offsets are 0-based as in the source; sequences are 1-based.            *)
(***************************************************************************)
EXTENDS Integers, Sequences, FiniteSets, TLC

NL == "\n"
CH == "a"
Alphabet == {NL, CH}

\* the paragraph separator of chunk.split('\n\n') and of para + "\n\n"
Sep == <<NL, NL>>

(***************************************************************************)
(* Bounds of the model.                                                    *)
(***************************************************************************)
\* longest text enumerated character by character for the chunker
MaxTextLen == 6
\* largest chunk_size tried on the enumerated texts
MaxChunkSize == 4
\* longest text of a document run through summarize_pdf
MaxDocLen == 3
\* largest chunk_size of a PDFSummarizer run through summarize_pdf
MaxDocChunkSize == 1
\* largest max_workers of a PDFSummarizer
MaxWorkers == 2

(***************************************************************************)
(* Program constants.                                                      *)
(***************************************************************************)
\* len(boundaries) < 30
BoundaryLimit == 30
\* every header pattern starts with \n and needs at least three more
\* characters (the shortest: \n [A-Z] [A-Z\s]{2,})
MinMatchLen == 4

(***************************************************************************)
(* Sequences of characters.                                                *)
(***************************************************************************)
RECURSIVE SeqsUpTo(_)
SeqsUpTo(n) ==
    IF n = 0 THEN {<< >>}
    ELSE LET shorter == SeqsUpTo(n - 1)
         IN  shorter \cup {Append(s, c) : s \in {t \in shorter : Len(t) = n - 1},
                                           c \in Alphabet}

RECURSIVE Repeat(_, _)
Repeat(block, k) == IF k = 0 THEN << >> ELSE block \o Repeat(block, k - 1)

RECURSIVE Concat(_)
\* "".join(list)
Concat(list) == IF list = << >> THEN << >> ELSE Head(list) \o Concat(Tail(list))

\* text[lo:hi] with 0-based offsets, 0 <= lo <= hi <= len(text)
\* mutant: a slice that starts one character late
SliceFromNext(s, lo, hi) == SubSeq(s, lo + 2, hi)

Slice(s, lo, hi) == SubSeq(s, lo + 1, hi)

RECURSIVE SplitFrom(_, _)
\* the pieces of s from position i on: up to the next separator at or after
\* i, then the pieces after that separator
SplitFrom(s, i) ==
    LET hits == {j \in i .. Len(s) - 1 : s[j] = NL /\ s[j + 1] = NL}
    IN  IF hits = {} THEN <<SubSeq(s, i, Len(s))>>
        ELSE LET j == CHOOSE h \in hits : \A g \in hits : h <= g
             IN  <<SubSeq(s, i, j - 1)>> \o SplitFrom(s, j + 2)

\* s.split('\n\n'): the separator is found left to right, without overlap
Split(s) == SplitFrom(s, 1)

RECURSIVE SortedSeq(_)
\* sorted(S) of a finite set of integers
SortedSeq(S) ==
    IF S = {} THEN << >>
    ELSE LET m == CHOOSE x \in S : \A y \in S : x <= y
         IN  <<m>> \o SortedSeq(S \ {m})

Range(s) == {s[i] : i \in DOMAIN s}

(***************************************************************************)
(* Segmenter.                                                              *)
(***************************************************************************)
\* Where re.finditer can report a header match: every pattern begins with
\* \n, so match.start() is the offset of a newline that has the rest of the
\* header after it.
MatchCandidates(t) ==
    {p \in 0 .. Len(t) - 1 : t[p + 1] = NL /\ p + MinMatchLen <= Len(t)}

\* The offsets appended by the loop over the patterns, in the order of the
\* appends: the matches of the earlier patterns, ascending, then those of
\* the later patterns, ascending (the two may share offsets).
MatchList(early, late) == SortedSeq(early) \o SortedSeq(late)

\* boundaries = [0]; boundaries.append(match.start()) ...;
\* sorted(set(boundaries))
\* mutant: the list is sorted, the duplicates stay
detect_section_boundaries_sorted_only(offsets) ==
    LET all == <<0>> \o offsets
    IN  [i \in 1 .. Len(all) |->
            CHOOSE v \in Range(all) :
                /\ Cardinality({j \in DOMAIN all : all[j] < v}) < i
                /\ i <= Cardinality({j \in DOMAIN all : all[j] <= v})]

detect_section_boundaries(offsets) == SortedSeq(Range(<<0>> \o offsets))

(***************************************************************************)
(* Chunker.                                                                *)
(***************************************************************************)
\* mutant: the section after the last boundary is not added
SectionsWithoutLast(t, b) ==
    [i \in 1 .. Len(b) - 1 |-> Slice(t, b[i], b[i + 1])]

\* chunks between consecutive boundaries, and the last section
Sections(t, b) ==
    [i \in 1 .. Len(b) |->
        IF i < Len(b) THEN Slice(t, b[i], b[i + 1]) ELSE Slice(t, b[i], Len(t))]

RECURSIVE ResplitLoop(_, _, _, _, _)
\* the paragraph loop of the boundary path: a full current_chunk is
\* appended only when it is not empty
ResplitLoop(paragraphs, k, current_chunk, out, size) ==
    IF k > Len(paragraphs)
    THEN IF current_chunk # << >> THEN Append(out, current_chunk) ELSE out
    ELSE LET para == paragraphs[k]
         IN  IF Len(current_chunk) + Len(para) < size
             THEN ResplitLoop(paragraphs, k + 1, current_chunk \o para \o Sep, out, size)
             ELSE ResplitLoop(paragraphs, k + 1, para \o Sep,
                              IF current_chunk # << >> THEN Append(out, current_chunk) ELSE out,
                              size)

\* mutant: a section is split again as soon as it is longer than chunk_size
TooBigAtSize(chunk, size) == Len(chunk) > size

\* len(chunk) > self.chunk_size * 1.5
TooBig(chunk, size) == 2 * Len(chunk) > 3 * size

Resplit(chunk, size) == ResplitLoop(Split(chunk), 1, << >>, << >>, size)

\* what one turn of the loop over chunks adds to final_chunks
SectionChunks(chunk, size) ==
    IF TooBig(chunk, size) THEN Resplit(chunk, size) ELSE <<chunk>>

RECURSIVE FinalChunks(_, _, _)
FinalChunks(list, k, size) ==
    IF k > Len(list) THEN << >>
    ELSE SectionChunks(list[k], size) \o FinalChunks(list, k + 1, size)

RECURSIVE FallbackLoopInclusive(_, _, _, _, _)
\* mutant: a paragraph is added while the sum is at most chunk_size
FallbackLoopInclusive(paragraphs, k, current_chunk, out, size) ==
    IF k > Len(paragraphs)
    THEN IF current_chunk # << >> THEN Append(out, current_chunk) ELSE out
    ELSE LET para == paragraphs[k]
         IN  IF Len(current_chunk) + Len(para) <= size
             THEN FallbackLoopInclusive(paragraphs, k + 1, current_chunk \o para \o Sep,
                                        out, size)
             ELSE FallbackLoopInclusive(paragraphs, k + 1, para \o Sep,
                                        Append(out, current_chunk), size)

RECURSIVE FallbackLoop(_, _, _, _, _)
\* the paragraph loop of the fallback path: a full current_chunk is
\* appended whatever it holds
FallbackLoop(paragraphs, k, current_chunk, out, size) ==
    IF k > Len(paragraphs)
    THEN IF current_chunk # << >> THEN Append(out, current_chunk) ELSE out
    ELSE LET para == paragraphs[k]
         IN  IF Len(current_chunk) + Len(para) < size
             THEN FallbackLoop(paragraphs, k + 1, current_chunk \o para \o Sep, out, size)
             ELSE FallbackLoop(paragraphs, k + 1, para \o Sep, Append(out, current_chunk), size)

\* mutant: an empty text gives no chunk
FallbackOfNonEmpty(t, size) ==
    IF t = << >> THEN << >> ELSE FallbackLoop(Split(t), 1, << >>, << >>, size)

Fallback(t, size) == FallbackLoop(Split(t), 1, << >>, << >>, size)

\* mutant: the upper limit is taken inclusive
UseBoundariesUpToLimit(b) == Len(b) > 1 /\ Len(b) <= BoundaryLimit

\* len(boundaries) > 1 and len(boundaries) < 30
UseBoundaries(b) == Len(b) > 1 /\ Len(b) < BoundaryLimit

create_semantic_chunks(t, offsets, size) ==
    LET b == detect_section_boundaries(offsets)
    IN  IF UseBoundaries(b)
        THEN [path |-> "boundary", boundaries |-> b,
              sections |-> Sections(t, b),
              added |-> [k \in DOMAIN Sections(t, b) |->
                            SectionChunks(Sections(t, b)[k], size)],
              chunks |-> FinalChunks(Sections(t, b), 1, size)]
        ELSE [path |-> "fallback", boundaries |-> b,
              sections |-> << >>,
              added |-> << >>,
              chunks |-> Fallback(t, size)]


(***************************************************************************)
(* The summarization capability (llm_api): a prompt in, a response out, or *)
(* an exception.  Strings the pipeline builds are sequences of tokens.     *)
(***************************************************************************)
Errors == {"e1"}

\* the response to a prompt: a text that depends on what the prompt holds
Returned(prompt) ==
    [kind |-> "result",
     val |-> <<"summary of">> \o prompt.section \o Concat(prompt.sections)]
\* an exception (an instance of Exception, which is what the except clause
\* of summarize_pdf catches), with its message
Raised(e) == [kind |-> "exception", val |-> <<e>>]
\* how a call of llm_api with this prompt can end
Outcomes(prompt) == {Returned(prompt)} \cup {Raised(e) : e \in Errors}

\* states of a future before it is done
NoFuture == [kind |-> "none", val |-> << >>]
Pending == [kind |-> "pending", val |-> << >>]
Running == [kind |-> "running", val |-> << >>]

\* the prompt summarize_chunk builds: the title and the mode are fixed for
\* a document, the section text is what varies
ChunkPrompt(chunk) == [stage |-> "map", section |-> chunk, sections |-> << >>]

\* the prompt summarize_summaries builds:
\* "\n\n".join(f"Section {i+1} Summary:\n{summary}" ...)
ReducePrompt(list) ==
    [stage |-> "reduce", section |-> << >>,
     sections |-> [i \in 1 .. Len(list) |->
                      <<"Section", ToString(i), "Summary:">> \o list[i]]]

\* f"[Error summarizing this section: {e}]"
Placeholder(e) == <<"[Error summarizing this section: ">> \o e \o <<"]">>

VARIABLES
    text,            \* the text of the document
    found,           \* the match offsets the header patterns report on it
    chunk_size,      \* self.chunk_size
    max_workers,     \* self.max_workers
    deterministic,   \* whether llm_api answers a prompt always the same way
    stuck,           \* the chunk indices whose call of llm_api never returns
    answers,         \* what a deterministic llm_api has answered so far
    pc,              \* where the caller of the pipeline is
    boundaries,      \* detect_section_boundaries(text)
    path,            \* the branch create_semantic_chunks took
    sections,        \* the list chunks before the re-split (boundary path)
    added,           \* what the re-split loop added to final_chunks, per section
    chunks,          \* create_semantic_chunks(text)
    fut,             \* the future of each chunk index
    queue,           \* the executor's work queue
    yielded,         \* the futures as_completed has handed out, in that order
    chunk_summaries, \* the list of (chunk_idx, summary)
    summaries,       \* the summaries in the order given to the reduce call
    calls,           \* the prompts llm_api was called with, in call order
    reduced,         \* the state of the reduce call: what llm_api answered
    result,          \* << >>, or the record summarize_pdf returned
    error,           \* << >>, or the exception summarize_pdf raised
    run,             \* 1 for the first call of summarize_pdf, 2 for a second
    first            \* what the first call ended with

vars == <<text, found, chunk_size, max_workers, deterministic, stuck, answers, pc,
          boundaries, path, sections, added, chunks, fut, queue, yielded, chunk_summaries,
          summaries, calls, reduced, result, error, run, first>>

inputs == <<text, found, chunk_size, deterministic, stuck>>
chunker == <<boundaries, path, sections, added, chunks>>
pool == <<fut, queue, yielded, chunk_summaries>>
outputs == <<summaries, reduced, result, error>>

Indices == 0 .. Len(chunks) - 1
running == {i \in DOMAIN fut : fut[i].kind = "running"}
Done(f) == f.kind \in {"result", "exception"}

NoFirst == [max_workers |-> 0, summaries |-> << >>, result |-> << >>, error |-> << >>]

Fresh ==
    /\ pc = "start"
    /\ stuck = {}
    /\ answers = {}
    /\ boundaries = << >>
    /\ path = "none"
    /\ sections = << >>
    /\ added = << >>
    /\ chunks = << >>
    /\ fut = << >>
    /\ queue = << >>
    /\ yielded = << >>
    /\ chunk_summaries = << >>
    /\ summaries = << >>
    /\ calls = << >>
    /\ reduced = NoFuture
    /\ result = << >>
    /\ error = << >>
    /\ run = 1
    /\ first = NoFirst

(***************************************************************************)
(* The chunker alone: create_semantic_chunks called on a text.             *)
(***************************************************************************)
\* a document of header lines "\n1 Ab.", one boundary per line
HeaderBlock == <<NL, CH, CH, CH, CH, CH>>
HeaderDoc(k) == Repeat(HeaderBlock, k)

InitShortText ==
    /\ text \in SeqsUpTo(MaxTextLen)
    /\ \E early \in SUBSET MatchCandidates(text), late \in SUBSET MatchCandidates(text) :
          found = MatchList(early, late)
    /\ chunk_size \in 0 .. MaxChunkSize

InitHeaderDoc ==
    /\ text \in {HeaderDoc(k) : k \in BoundaryLimit - 2 .. BoundaryLimit + 1}
    /\ found = SortedSeq({p \in 0 .. Len(text) - 1 : text[p + 1] = NL})
    /\ chunk_size \in {Len(HeaderBlock) - 2, Len(HeaderBlock), 2 * Len(HeaderBlock) + 1}

InitChunk ==
    /\ InitShortText \/ InitHeaderDoc
    /\ max_workers = 1
    /\ deterministic = TRUE
    /\ Fresh

ChunkText ==
    /\ pc = "start"
    /\ LET c == create_semantic_chunks(text, found, chunk_size)
       IN  /\ boundaries' = c.boundaries
           /\ path' = c.path
           /\ sections' = c.sections
           /\ added' = c.added
           /\ chunks' = c.chunks
    /\ pc' = "chunked"
    /\ UNCHANGED <<inputs, max_workers, answers, pool, outputs, calls, run, first>>

NextChunk == ChunkText

SpecChunk == InitChunk /\ [][NextChunk]_vars

(***************************************************************************)
(* Properties of create_semantic_chunks.                                   *)
(***************************************************************************)
RECURSIVE Tiles(_, _, _, _)
\* From offset o on, the chunks k, k+1, ... are the consecutive stretches of
\* t up to its end, a chunk being a stretch as it is or a stretch followed
\* by one separator that the paragraph packing appended.
Tiles(t, o, list, k) ==
    IF k > Len(list) THEN o = Len(t)
    ELSE LET c == list[k]
             n == Len(c)
         IN  \/ /\ o + n <= Len(t)
                /\ c = Slice(t, o, o + n)
                /\ Tiles(t, o + n, list, k + 1)
             \/ /\ n >= 2
                /\ o + n - 2 <= Len(t)
                /\ c = Slice(t, o, o + n - 2) \o <<NL, NL>>
                /\ Tiles(t, o + n - 2, list, k + 1)

Ascending(list) == \A k \in 1 .. Len(list) - 1 : list[k] < list[k + 1]

Count(c, s) == Cardinality({i \in DOMAIN s : s[i] = c})

\* C9: every character of the text is in an emitted chunk: the chunks in
\* index order are the consecutive stretches of the text from its first
\* character to its last, none dropped and none out of order; all a chunk
\* holds beyond its stretch is a paragraph separator appended by the
\* paragraph packing.
C9_Coverage ==
    pc = "chunked" => Tiles(text, 0, chunks, 1)

\* the boundary path with a section that was split again into two chunks
C9_Witness ==
    /\ pc = "chunked"
    /\ path = "boundary"
    /\ Len(boundaries) = 2
    /\ Len(chunks) = 3
    /\ Count(CH, text) >= 3

\* C10: the boundary path is taken exactly when the boundary list has more
\* than one and fewer than 30 offsets; a list of one offset, or of 30 or
\* more, gives the paragraph packing of the whole text.
C10_PathChoice ==
    pc = "chunked" =>
        LET n == Cardinality({0} \cup Range(found))
        IN  /\ Len(boundaries) = n
            /\ path = "boundary" <=> (n > 1 /\ n < BoundaryLimit)
            /\ (n = 1 \/ n >= BoundaryLimit) =>
                  /\ path = "fallback"
                  /\ chunks = FallbackLoop(Split(text), 1, << >>, << >>, chunk_size)

\* a text with exactly 30 boundaries went the fallback way
C10_Witness ==
    /\ pc = "chunked"
    /\ Len(boundaries) = BoundaryLimit
    /\ path = "fallback"
    /\ Len(chunks) = 2

\* the sections that were split again
Resplits == {k \in DOMAIN sections : 2 * Len(sections[k]) > 3 * chunk_size}

\* C11: on the boundary path no sub-chunk of a section that was split again
\* is longer than chunk_size, unless it is one paragraph (with the separator
\* the packing appends) and that paragraph alone is longer than chunk_size.
C11_SubChunkWithinSize ==
    (pc = "chunked" /\ path = "boundary") =>
        \A k \in Resplits : \A j \in DOMAIN added[k] :
            LET c == added[k][j]
            IN  \/ Len(c) <= chunk_size
                \/ \E para \in Range(Split(sections[k])) :
                      c = para \o Sep /\ Len(para) > chunk_size

\* a section was split again into a sub-chunk that is longer than chunk_size
\* although it holds one paragraph and that paragraph is shorter than
\* chunk_size
C11_Overrun ==
    /\ pc = "chunked"
    /\ path = "boundary"
    /\ chunk_size > 0
    /\ \E k \in Resplits : \E j \in DOMAIN added[k] :
          /\ Len(added[k][j]) > chunk_size
          /\ \E para \in Range(Split(sections[k])) :
                added[k][j] = para \o Sep /\ Len(para) < chunk_size

\* the text is two paragraphs, each shorter than chunk_size, and no header
\* pattern matches
TwoShortParagraphs ==
    /\ pc = "chunked"
    /\ found = << >>
    /\ Len(Split(text)) = 2
    /\ \A k \in 1 .. 2 : Len(Split(text)[k]) < chunk_size

\* C12 as stated: such a document goes the fallback way and gives one chunk
\* if the lengths of the two paragraphs add up to less than chunk_size, and
\* two chunks otherwise.
C12_TwoParagraphsBySum ==
    TwoShortParagraphs =>
        LET p == Split(text)
        IN  /\ boundaries = <<0>>
            /\ path = "fallback"
            /\ Len(chunks) = IF Len(p[1]) + Len(p[2]) < chunk_size THEN 1 ELSE 2

\* C12, amended: such a document goes the fallback way and gives one chunk,
\* both paragraphs each followed by a separator, if the first paragraph, its
\* separator and the second paragraph add up to less than chunk_size; it
\* gives two chunks, one per paragraph, otherwise.
C12_TwoParagraphs ==
    TwoShortParagraphs =>
        LET p == Split(text)
        IN  /\ boundaries = <<0>>
            /\ path = "fallback"
            /\ chunks = IF Len(p[1]) + Len(Sep) + Len(p[2]) < chunk_size
                        THEN <<p[1] \o Sep \o p[2] \o Sep>>
                        ELSE <<p[1] \o Sep, p[2] \o Sep>>

\* two paragraphs whose lengths add up to less than chunk_size and that are
\* packed into two chunks, because the separator counts as well
C12_Witness ==
    /\ TwoShortParagraphs
    /\ Len(Split(text)[1]) + Len(Split(text)[2]) < chunk_size
    /\ Len(Split(text)[1]) + Len(Sep) + Len(Split(text)[2]) = chunk_size
    /\ Len(chunks) = 2

\* C13: the fallback path gives the chunks the paragraph loop of the
\* re-split gives for the same paragraph list.
C13_SamePacking ==
    (pc = "chunked" /\ path = "fallback") =>
        chunks = ResplitLoop(Split(text), 1, << >>, << >>, chunk_size)

C15_ResplitThreshold ==
    (pc = "chunked" /\ path = "boundary") =>
        /\ Len(added) = Len(sections)
        /\ chunks = Concat(added)
        /\ \A k \in DOMAIN sections :
              IF 2 * Len(sections[k]) > 3 * chunk_size
              THEN /\ Len(added[k]) >= 1
                   /\ \A j \in DOMAIN added[k] : added[k][j] # << >>
                   /\ Concat(added[k]) = sections[k] \o Sep
              ELSE added[k] = <<sections[k]>>

\* a section longer than chunk_size, but not longer than 1.5 times
\* chunk_size, is added unchanged
C15_Witness ==
    /\ pc = "chunked"
    /\ path = "boundary"
    /\ \E k \in DOMAIN sections :
          /\ Len(sections[k]) > chunk_size
          /\ 2 * Len(sections[k]) <= 3 * chunk_size
          /\ added[k] = <<sections[k]>>

\* C16: whatever the text and whatever offsets the header patterns match
\* at, detect_section_boundaries returns a list that starts with 0, holds no
\* negative offset, strictly increases (so holds no offset twice), and holds
\* 0 and the match offsets and nothing else; with no match it is [0].
C16_Boundaries ==
    pc = "chunked" =>
        /\ Len(boundaries) >= 1
        /\ boundaries[1] = 0
        /\ \A k \in DOMAIN boundaries : boundaries[k] >= 0
        /\ Ascending(boundaries)
        /\ Range(boundaries) = {0} \cup Range(found)
        /\ found = << >> => boundaries = <<0>>

\* two patterns matched at the same offset, and a later pattern matched
\* before an earlier one did
C16_Witness ==
    /\ pc = "chunked"
    /\ Len(found) > Cardinality(Range(found))
    /\ \E k \in 1 .. Len(found) - 1 : found[k] > found[k + 1]
    /\ Len(boundaries) >= 2

(***************************************************************************)
(* summarize_pdf: the map stage on a ThreadPoolExecutor, the join, the     *)
(* sort and the reduce call.                                               *)
(***************************************************************************)
\* a document with one header line after its first character
SectionDoc == <<CH, NL, CH, CH, CH>>

Init ==
    /\ text \in SeqsUpTo(MaxDocLen) \cup {SectionDoc}
    /\ \E early \in SUBSET MatchCandidates(text), late \in SUBSET MatchCandidates(text) :
          found = MatchList(early, late)
    /\ chunk_size \in 0 .. MaxDocChunkSize
    /\ max_workers \in 1 .. MaxWorkers
    /\ deterministic \in BOOLEAN
    /\ Fresh

\* what llm_api may answer to a prompt now
Allowed(prompt) ==
    IF deterministic /\ \E a \in answers : a[1] = prompt
    THEN {a[2] : a \in {b \in answers : b[1] = prompt}}
    ELSE Outcomes(prompt)

Remember(prompt, outcome) ==
    IF deterministic THEN answers \cup {<<prompt, outcome>>} ELSE answers

\* text, metadata = extract_text_and_metadata(pdf_path);
\* chunks = create_semantic_chunks(text); chunk_summaries = [];
\* the executor is created
Begin ==
    /\ pc = "start"
    /\ LET c == create_semantic_chunks(text, found, chunk_size)
       IN  /\ boundaries' = c.boundaries
           /\ path' = c.path
           /\ sections' = c.sections
           /\ added' = c.added
           /\ chunks' = c.chunks
           /\ fut' = [i \in 0 .. Len(c.chunks) - 1 |-> NoFuture]
           /\ pc' = IF c.chunks = << >> THEN "collect" ELSE "submit"
    /\ queue' = << >>
    /\ yielded' = << >>
    /\ chunk_summaries' = << >>
    /\ UNCHANGED <<inputs, max_workers, answers, outputs, calls, run, first>>

\* the next chunk the dict comprehension submits
NextToSubmit == Cardinality({i \in Indices : fut[i] # NoFuture})

\* executor.submit(self.summarize_chunk, chunk, metadata, is_financial): i
Submit ==
    /\ pc = "submit"
    /\ LET i == NextToSubmit
       IN  /\ fut' = [fut EXCEPT ![i] = Pending]
           /\ queue' = Append(queue, i)
           /\ pc' = IF i + 1 = Len(chunks) THEN "collect" ELSE "submit"
    /\ UNCHANGED <<inputs, max_workers, answers, chunker, yielded, chunk_summaries,
                   outputs, calls, run, first>>

\* mutant: a call that is made a second time
CallLlmAgain(prompt) == Append(Append(calls, prompt), prompt)

\* self.llm_api(prompt) is called
CallLlm(prompt) == Append(calls, prompt)

\* mutant: the pool keeps one of its max_workers threads back
WorkerFreeButOne == Cardinality(running) < max_workers - 1

\* mutant: a pool that starts a thread for every work item
WorkerAlwaysFree == TRUE

\* a worker thread is free to take a work item: the pool never has more
\* than max_workers threads
WorkerFree == Cardinality(running) < max_workers

\* A worker takes the oldest work item, marks its future running and calls
\* summarize_chunk, which builds the prompt and calls llm_api.
WorkerStart ==
    /\ queue # << >>
    /\ WorkerFree
    /\ LET i == Head(queue)
       IN  /\ fut' = [fut EXCEPT ![i] = Running]
           /\ calls' = CallLlm(ChunkPrompt(chunks[i + 1]))
    /\ queue' = Tail(queue)
    /\ UNCHANGED <<inputs, max_workers, answers, pc, chunker, yielded, chunk_summaries,
                   outputs, run, first>>

\* mutant: summarize_chunk with a try/except of its own around the call
summarize_chunk_catching(outcome) ==
    IF outcome.kind = "exception"
    THEN [kind |-> "result", val |-> Placeholder(outcome.val)]
    ELSE outcome

\* response = self.llm_api(prompt); return response
\* what summarize_chunk ends with when llm_api ends with outcome
summarize_chunk(outcome) == outcome

\* llm_api returns or raises in summarize_chunk, unless this call is one
\* that never returns; the worker stores what summarize_chunk ended with in
\* the future (set_result, set_exception)
WorkerFinish(i) ==
    /\ fut[i] = Running
    /\ i \notin stuck
    /\ \E outcome \in Allowed(ChunkPrompt(chunks[i + 1])) :
          /\ fut' = [fut EXCEPT ![i] = summarize_chunk(outcome)]
          /\ answers' = Remember(ChunkPrompt(chunks[i + 1]), outcome)
    /\ UNCHANGED <<inputs, max_workers, pc, chunker, queue, yielded, chunk_summaries,
                   outputs, calls, run, first>>

\* mutant: the except branch only prints
CollectedUnlessFailed(chunk_idx, future) ==
    IF future.kind = "result" THEN <<<<chunk_idx, future.val>>>> ELSE << >>

\* mutant: the entry is tagged with its place in the list, not chunk_idx
CollectedByArrival(chunk_idx, future) ==
    IF future.kind = "result"
    THEN <<<<Len(chunk_summaries), future.val>>>>
    ELSE <<<<Len(chunk_summaries), Placeholder(future.val)>>>>

\* mutant: the entry is appended in the try block and once more after it
CollectedTwice(chunk_idx, future) ==
    IF future.kind = "result"
    THEN <<<<chunk_idx, future.val>>, <<chunk_idx, future.val>>>>
    ELSE <<<<chunk_idx, Placeholder(future.val)>>>>

\* try: summary = future.result(); append((chunk_idx, summary))
\* except Exception as e: append((chunk_idx, f"[Error ... {e}]"))
Collected(chunk_idx, future) ==
    IF future.kind = "result"
    THEN <<<<chunk_idx, future.val>>>>
    ELSE <<<<chunk_idx, Placeholder(future.val)>>>>

\* mutant: the loop takes the futures in the order they were submitted in
\* (for future in future_to_chunk) and waits for each
CollectInOrder(i) ==
    /\ pc = "collect"
    /\ i = Len(yielded)
    /\ Done(fut[i])
    /\ yielded' = Append(yielded, i)
    /\ chunk_summaries' = chunk_summaries \o Collected(i, fut[i])
    /\ UNCHANGED <<inputs, max_workers, answers, pc, chunker, fut, queue,
                   outputs, calls, run, first>>

\* one turn of the loop over as_completed(future_to_chunk): any future
\* that is done and was not handed out yet
Collect(i) ==
    /\ pc = "collect"
    /\ i \notin Range(yielded)
    /\ Done(fut[i])
    /\ yielded' = Append(yielded, i)
    /\ chunk_summaries' = chunk_summaries \o Collected(i, fut[i])
    /\ UNCHANGED <<inputs, max_workers, answers, pc, chunker, fut, queue,
                   outputs, calls, run, first>>

\* mutant: the loop ends with the first future handed out
JoinedAtFirst == yielded # << >>

\* as_completed is exhausted: every future was handed out
Joined == Range(yielded) = DOMAIN fut

RECURSIVE InsertByIdx(_, _)
InsertByIdx(sorted, e) ==
    IF sorted = << >> THEN <<e>>
    ELSE IF e[1] < Head(sorted)[1] THEN <<e>> \o sorted
    ELSE <<Head(sorted)>> \o InsertByIdx(Tail(sorted), e)

\* mutant: the list is left in completion order
Unsorted(list) == list

RECURSIVE SortedByIdx(_)
\* chunk_summaries.sort(key=lambda x: x[0]): stable
SortedByIdx(list) ==
    IF list = << >> THEN << >>
    ELSE InsertByIdx(SortedByIdx(SubSeq(list, 1, Len(list) - 1)), list[Len(list)])

\* summaries = [summary for _, summary in chunk_summaries]
Second(list) == [k \in 1 .. Len(list) |-> list[k][2]]

\* The with block ends, the list is sorted, and summarize_summaries builds
\* its prompt and calls llm_api.
Reduce ==
    /\ pc = "collect"
    /\ Joined
    /\ chunk_summaries' = SortedByIdx(chunk_summaries)
    /\ summaries' = Second(chunk_summaries')
    /\ calls' = CallLlm(ReducePrompt(summaries'))
    /\ reduced' = Running
    /\ pc' = "reduce"
    /\ UNCHANGED <<inputs, max_workers, answers, chunker, fut, queue, yielded,
                   result, error, run, first>>

\* mutant: summarize_summaries with a try/except that returns a placeholder
summarize_summaries_catching(outcome) ==
    IF outcome.kind = "exception"
    THEN [kind |-> "result", val |-> Placeholder(outcome.val)]
    ELSE outcome

\* response = self.llm_api(prompt); return response
\* what summarize_summaries ends with when llm_api ends with outcome
summarize_summaries(outcome) == outcome

\* final_summary = self.summarize_summaries(...); return {...}
\* (the metadata of the record are those of the document)
Finish ==
    /\ pc = "reduce"
    /\ \E outcome \in Allowed(ReducePrompt(summaries)) :
          /\ answers' = Remember(ReducePrompt(summaries), outcome)
          /\ reduced' = outcome
          /\ LET final == summarize_summaries(outcome)
             IN  IF final.kind = "result"
                 THEN /\ result' = <<[chunk_count |-> Len(chunks),
                                      section_summaries |-> summaries,
                                      final_summary |-> final.val]>>
                      /\ error' = << >>
                      /\ pc' = "done"
                 ELSE /\ result' = << >>
                      /\ error' = <<final.val>>
                      /\ pc' = "raised"
    /\ UNCHANGED <<inputs, max_workers, chunker, pool, summaries, calls, run, first>>

\* The caller runs the same document through a summarizer with the same
\* deterministic llm_api once more, max_workers chosen anew.
Rerun ==
    /\ pc \in {"done", "raised"}
    /\ run = 1
    /\ deterministic
    /\ first' = [max_workers |-> max_workers, summaries |-> summaries,
                 result |-> result, error |-> error]
    /\ run' = 2
    /\ max_workers' \in 1 .. MaxWorkers
    /\ pc' = "start"
    /\ boundaries' = << >>
    /\ path' = "none"
    /\ sections' = << >>
    /\ added' = << >>
    /\ chunks' = << >>
    /\ fut' = << >>
    /\ queue' = << >>
    /\ yielded' = << >>
    /\ chunk_summaries' = << >>
    /\ summaries' = << >>
    /\ calls' = << >>
    /\ reduced' = NoFuture
    /\ result' = << >>
    /\ error' = << >>
    /\ UNCHANGED <<inputs, answers>>

Next ==
    \/ Begin
    \/ Submit
    \/ WorkerStart
    \/ \E i \in DOMAIN fut : WorkerFinish(i)
    \/ \E i \in DOMAIN fut : Collect(i)
    \/ Reduce
    \/ Finish
    \/ Rerun

Spec == Init /\ [][Next]_vars

(***************************************************************************)
(* One call of summarize_pdf under fair scheduling.  The worker threads    *)
(* and the caller are threads of the operating system: a thread that can   *)
(* take a step takes it in the end, and a call of llm_api that is not      *)
(* stuck returns or raises in the end.                                     *)
(***************************************************************************)
InitLive == Init /\ ~deterministic

NextLive ==
    \/ Begin
    \/ Submit
    \/ WorkerStart
    \/ \E i \in DOMAIN fut : WorkerFinish(i)
    \/ \E i \in DOMAIN fut : Collect(i)
    \/ Reduce
    \/ Finish

Fairness ==
    /\ WF_vars(Begin)
    /\ WF_vars(Submit)
    /\ WF_vars(WorkerStart)
    /\ WF_vars(\E i \in DOMAIN fut : WorkerFinish(i))
    /\ WF_vars(\E i \in DOMAIN fut : Collect(i))
    /\ WF_vars(Reduce)
    /\ WF_vars(Finish)

SpecLive == InitLive /\ [][NextLive]_vars /\ Fairness

\* The call of llm_api a worker has made for chunk i is one that never
\* returns; nothing in summarize_pdf sets a timeout or cancels a future.
\* One call at most gets stuck.
Hang(i) ==
    /\ fut[i] = Running
    /\ stuck = {}
    /\ stuck' = {i}
    /\ UNCHANGED <<text, found, chunk_size, deterministic, max_workers, answers, pc,
                   chunker, pool, outputs, calls, run, first>>

NextHang ==
    \/ NextLive
    \/ \E i \in DOMAIN fut : Hang(i)

SpecHang == InitLive /\ [][NextHang]_vars /\ Fairness

(***************************************************************************)
(* Properties of summarize_pdf.                                            *)
(***************************************************************************)
\* the chunk list the Chunker produces for the document
Produced == create_semantic_chunks(text, found, chunk_size).chunks

\* what a finished invocation shows in section_summaries: its summary, or
\* the placeholder of its error
Shown(f) ==
    IF f.kind = "exception"
    THEN <<"[Error summarizing this section: ">> \o f.val \o <<"]">>
    ELSE f.val

\* C1: the record summarize_pdf returns has one summary per chunk the
\* Chunker produced, chunk_count says how many, the collected results cover
\* every chunk index exactly once, and the i-th summary is what the
\* invocation made for the i-th chunk ended with, whatever max_workers and
\* the completion order were.
C1_IndexFidelity ==
    pc = "done" =>
        /\ Len(result) = 1
        /\ result[1].chunk_count = Len(Produced)
        /\ Len(result[1].section_summaries) = Len(Produced)
        /\ Len(chunk_summaries) = Len(Produced)
        /\ \A i \in 0 .. Len(Produced) - 1 :
              /\ chunk_summaries[i + 1][1] = i
              /\ Done(fut[i])
              /\ result[1].section_summaries[i + 1] = Shown(fut[i])

\* a record was returned for three chunks whose invocations completed out
\* of source order, two at a time, with three different results
C1_Witness ==
    /\ pc = "done"
    /\ Len(chunks) = 3
    /\ max_workers = 2
    /\ ~Ascending(yielded)
    /\ Cardinality({fut[i] : i \in DOMAIN fut}) = 3

\* C2: when the invocations of some chunks fail and the others succeed, the
\* reduce call is still made, over one entry per chunk: the placeholder of
\* its error for a failed chunk, its summary for the others; and the record
\* returned has chunk_count = N and these N entries.
C2_FailSoft ==
    LET failed == {i \in DOMAIN fut : fut[i].kind = "exception"}
        N == Len(Produced)
    IN  (failed # {} /\ pc \in {"reduce", "done", "raised"}) =>
            /\ Len(summaries) = N
            /\ \A i \in 0 .. N - 1 :
                  summaries[i + 1] =
                      IF i \in failed
                      THEN <<"[Error summarizing this section: ">> \o fut[i].val \o <<"]">>
                      ELSE fut[i].val
            /\ calls[Len(calls)].stage = "reduce"
            /\ Len(calls[Len(calls)].sections) = N
            /\ \A k \in 1 .. N :
                  calls[Len(calls)].sections[k] =
                      <<"Section", ToString(k), "Summary:">> \o summaries[k]
            /\ reduced.kind = "result" =>
                  /\ pc = "done"
                  /\ result[1].chunk_count = N
                  /\ result[1].section_summaries = summaries

\* exactly one of three invocations failed and the record was returned
C2_Witness ==
    /\ pc = "done"
    /\ Len(chunks) = 3
    /\ Cardinality({i \in DOMAIN fut : fut[i].kind = "exception"}) = 1
    /\ fut[1].kind = "exception"
    /\ result[1].chunk_count = 3

\* the reduce call has been made
ReduceCalled == \E k \in DOMAIN calls : calls[k].stage = "reduce"

\* C3: once the reduce call has been made, every chunk invocation has
\* completed and its result has been collected; none is running or queued.
C3_ReduceAfterJoin ==
    ReduceCalled =>
        /\ queue = << >>
        /\ running = {}
        /\ \A i \in 0 .. Len(Produced) - 1 :
              /\ Done(fut[i])
              /\ i \in Range(yielded)
              /\ \E k \in DOMAIN chunk_summaries : chunk_summaries[k][1] = i

\* the reduce call is running for three chunks that ran two at a time
C3_Witness ==
    /\ pc = "reduce"
    /\ reduced.kind = "running"
    /\ Len(chunks) = 3
    /\ max_workers = 2

\* C4: never more than max_workers invocations are executing; a submitted
\* task that is neither executing nor done waits in the queue, in
\* submission order.
C4_BoundedWorkers ==
    /\ Cardinality(running) <= max_workers
    /\ Range(queue) = {i \in DOMAIN fut : fut[i].kind = "pending"}
    /\ Ascending(queue)
    /\ Len(queue) + Cardinality({i \in DOMAIN fut : fut[i].kind # "none"
                                                     /\ fut[i].kind # "pending"})
          = Cardinality({i \in DOMAIN fut : fut[i].kind # "none"})

\* more chunks than workers: every worker is busy and a task waits
C4_Witness ==
    /\ max_workers = 2
    /\ Cardinality(running) = 2
    /\ queue = <<2>>
    /\ pc = "collect"

\* C5: when the reduce call fails, summarize_pdf raises that failure and
\* returns no record; a record that is returned carries as final_summary
\* the response of the reduce call, never an empty text or a placeholder.
C5_ReduceFailureSurfaces ==
    /\ reduced.kind = "exception" =>
          /\ pc = "raised"
          /\ result = << >>
          /\ error = <<reduced.val>>
    /\ result # << >> =>
          /\ reduced.kind = "result"
          /\ result[1].final_summary = reduced.val
          /\ result[1].final_summary # << >>
          /\ result[1].final_summary[1] # "[Error summarizing this section: "

\* every chunk was summarized, the reduce call failed, the caller got the
\* exception
C5_Witness ==
    /\ pc = "raised"
    /\ Len(chunks) >= 2
    /\ \A i \in DOMAIN fut : fut[i].kind = "result"
    /\ error # << >>

\* C6: with a deterministic capability a second run over the same document
\* ends as the first did: the same section summaries in the same order and
\* the same final summary (or the same failure), whatever max_workers and
\* the completion order of either run.
C6_Idempotent ==
    (run = 2 /\ pc \in {"done", "raised"}) =>
        /\ summaries = first.summaries
        /\ result = first.result
        /\ error = first.error

\* a first run with one worker, a second with as many workers as chunks,
\* completing out of source order, with two different section summaries
C6_Witness ==
    /\ run = 2
    /\ pc = "done"
    /\ first.max_workers = 1
    /\ Len(chunks) = 2
    /\ max_workers = 2
    /\ ~Ascending(yielded)
    /\ summaries[1] # summaries[2]
    /\ first.result # << >>

\* C7, as stated: summarize_chunk never ends with an exception; whenever the
\* capability raises, what the worker gets back from it is a returned value.
C7_ChunkCatchesItself ==
    \A i \in DOMAIN fut : Done(fut[i]) => fut[i].kind = "result"

\* C7, amended: summarize_chunk ends as llm_api did, so an exception of the
\* capability leaves summarize_chunk and is stored in the chunk's future;
\* summarize_pdf catches it when it collects that future and records the
\* placeholder for that chunk; what summarize_pdf raises to its caller is
\* only ever the failure of the reduce call.
C7_CaughtAtCollection ==
    /\ \A i \in DOMAIN fut :
          /\ (deterministic /\ Done(fut[i])) =>
                <<[stage |-> "map", section |-> chunks[i + 1], sections |-> << >>],
                  fut[i]>> \in answers
          /\ (fut[i].kind = "exception" /\ i \in Range(yielded)) =>
                \E k \in DOMAIN chunk_summaries :
                    chunk_summaries[k] =
                        <<i, <<"[Error summarizing this section: ">> \o fut[i].val \o <<"]">>>>
    /\ pc = "raised" => (reduced.kind = "exception" /\ error = <<reduced.val>>)

\* the capability raised for the first chunk, the record was returned
C7_Witness ==
    /\ deterministic
    /\ pc = "done"
    /\ fut[0].kind = "exception"
    /\ result[1].section_summaries[1] = <<"[Error summarizing this section: ", "e1", "]">>

\* C8: the capability is called once for every chunk invocation that has
\* started, failed ones included, and once for the reduce stage: N + 1
\* calls when the record is returned.
C8_OneCallPerChunk ==
    LET started == {i \in DOMAIN fut : fut[i].kind \in {"running", "result", "exception"}}
        mapCalls == {k \in DOMAIN calls : calls[k].stage = "map"}
        reduceCalls == {k \in DOMAIN calls : calls[k].stage = "reduce"}
    IN  /\ Cardinality(mapCalls) = Cardinality(started)
        /\ \A i \in DOMAIN fut :
              Cardinality({k \in mapCalls : calls[k].section = chunks[i + 1]})
                  = Cardinality({j \in started : chunks[j + 1] = chunks[i + 1]})
        /\ Cardinality(reduceCalls) = IF pc \in {"reduce", "done", "raised"} THEN 1 ELSE 0
        /\ pc \in {"done", "raised"} => Len(calls) = Len(Produced) + 1

\* three chunks, one of them failed, four calls, the record returned
C8_Witness ==
    /\ pc = "done"
    /\ Len(chunks) = 3
    /\ Len(calls) = 4
    /\ fut[2].kind = "exception"

\* C19: no entry of chunk_summaries is lost and none is there twice.  In
\* every state the list holds one entry for each future the caller has taken
\* from as_completed and no other entry: at most one per chunk index, only
\* for invocations that have ended, with what they ended with; its length is
\* the number of ended invocations the caller has consumed.
C19_NoLostUpdate ==
    /\ Len(chunk_summaries) = Len(yielded)
    /\ Cardinality(Range(yielded)) = Len(yielded)
    /\ \A i \in DOMAIN fut :
          LET entries == {k \in DOMAIN chunk_summaries : chunk_summaries[k][1] = i}
          IN  /\ Cardinality(entries) = IF i \in Range(yielded) THEN 1 ELSE 0
              /\ \A k \in entries :
                    /\ Done(fut[i])
                    /\ chunk_summaries[k][2] = Shown(fut[i])
    /\ \A k \in DOMAIN chunk_summaries : chunk_summaries[k][1] \in DOMAIN fut

\* the map stage with two workers: the second chunk's entry is in the list,
\* the first chunk's invocation has not ended
C19_Witness ==
    /\ pc = "collect"
    /\ max_workers = 2
    /\ Len(chunks) = 3
    /\ fut[0] = Running
    /\ chunk_summaries = <<<<1, Shown(fut[1])>>>>
    /\ fut[1].kind = "result"

\* C20: create_semantic_chunks returns at least one chunk whatever the text,
\* the empty one included, and whatever chunk_size, 0 included; so a future
\* exists for at least one chunk, and when the reduce call is made a call for
\* a chunk was made before it.
C20_AtLeastOneChunk ==
    /\ pc # "start" =>
          /\ Len(chunks) >= 1
          /\ DOMAIN fut # {}
    /\ \A k \in DOMAIN calls :
          calls[k].stage = "reduce" =>
              \E j \in 1 .. k - 1 : calls[j].stage = "map"

\* the empty text with chunk_size 1 gave one chunk, and the record was
\* returned
C20_Witness ==
    /\ text = << >>
    /\ chunk_size = 1
    /\ pc = "done"
    /\ Len(chunks) = 1
    /\ Len(calls) = 2

\* summarize_pdf has ended: no task is queued, every invocation was started
\* and has ended, every future was collected, the reduce call was made and
\* the record was returned or the exception raised
Ended ==
    /\ pc \in {"done", "raised"}
    /\ queue = << >>
    /\ DOMAIN fut # {}
    /\ \A i \in DOMAIN fut : Done(fut[i]) /\ i \in Range(yielded)
    /\ Len(chunk_summaries) = Len(chunks)
    /\ Done(reduced)
    /\ pc = "done" <=> result # << >>
    /\ pc = "raised" <=> error # << >>

\* C17: when every call of llm_api returns or raises in the end, then under
\* fair scheduling, for any number of chunks and max_workers 1 or more, every
\* queued task is started, every result is collected, the reduce call is
\* made, and summarize_pdf returns or raises.
C17_Terminates == <>Ended

\* one worker, three chunks, and summarize_pdf raised
C17_Witness ==
    /\ Ended
    /\ max_workers = 1
    /\ Len(chunks) = 3
    /\ pc = "raised"
    /\ fut[1].kind = "exception"

\* all the invocations but the stuck one have ended and were collected
OthersCollected ==
    /\ pc = "collect"
    /\ \A i \in DOMAIN fut \ stuck :
          /\ Done(fut[i])
          /\ i \in Range(yielded)
          /\ \E k \in DOMAIN chunk_summaries : chunk_summaries[k] = <<i, Shown(fut[i])>>

\* C18: a call of llm_api that never returns holds its own worker only.
\* With max_workers 2 or more every other chunk's invocation is started,
\* ends and is collected in the end; the reduce call is never made and
\* summarize_pdf never returns or raises.
C18_OnlyOwnSlot ==
    /\ [](stuck # {} => pc \in {"submit", "collect"})
    /\ [](stuck # {} => [](stuck # {} /\ reduced = NoFuture))
    /\ (stuck # {} /\ max_workers >= 2) ~> OthersCollected

\* the call for the first of three chunks is stuck, the two others were
\* collected
C18_Witness ==
    /\ stuck = {0}
    /\ max_workers = 2
    /\ Len(chunks) = 3
    /\ OthersCollected
    /\ Range(yielded) = {1, 2}

\* C21: create_semantic_chunks never gives an empty chunk, on the boundary
\* path, split again or not, and on the fallback path: every chunk of the
\* list holds one character at least, so llm_api is never called for an empty
\* chunk.
C21_NoEmptyChunk ==
    /\ \A k \in DOMAIN chunks : Len(chunks[k]) >= 1
    /\ \A k \in DOMAIN calls :
          calls[k].stage = "map" => Len(calls[k].section) >= 1

\* with a chunk_size above 0 the fallback path gave an empty first chunk,
\* and llm_api was called for it
C21_EmptyDispatched ==
    /\ chunk_size > 0
    /\ path = "fallback"
    /\ Len(chunks) >= 2
    /\ chunks[1] = << >>
    /\ \E k \in DOMAIN calls : calls[k] = ChunkPrompt(<< >>)

=============================================================================
